---------------------------- MODULE Spec2Model ----------------------------
(***************************************************************************)
(* ntex http: the service builder (src/ntex/src/http/builder.rs) and the   *)
(* client connector adapter with its erased socket                         *)
(* (src/ntex/src/http/client/connect.rs).                                  *)
(*                                                                         *)
(* Three components, three specifications over one set of variables:       *)
(*   SpecBuilder    HttpServiceBuilder: new, the setters, h1 / h2 / finish *)
(*   SpecConnector  ConnectorWrapper: send_request, open_tunnel            *)
(*   SpecSocket     BoxedSocket: poll_read / poll_write / flush / shutdown *)
(* Spec is their interleaving.                                             *)
(***************************************************************************)
EXTENDS Naturals, Sequences, FiniteSets, TLC

VARIABLES
    \* ---- HttpServiceBuilder ----
    builder,    \* the builder value (builder.rs:21-30)
    calls,      \* history: the configuration calls made so far, in order
    pre,        \* history: the builder value before the last configuration call
    service,    \* the service a terminal operation built, or NoService
    \* ---- ConnectorWrapper ----
    ops,        \* the computations returned by send_request / open_tunnel
    \* ---- BoxedSocket ----
    sock,       \* one BoxedSocket and the transport it wraps
    io,         \* history: the last call on sock and what it forwarded
    trip,       \* a writer-then-reader driving sock: the bytes sent and got back
    \* ---- the built service at run time ----
    conns       \* the connections the built service has accepted

builderVars == <<builder, calls, pre, service>>
connectorVars == <<ops>>
socketVars == <<sock, io, trip>>
serviceVars == <<conns>>
vars == <<builder, calls, pre, service, ops, sock, io, trip, conns>>

(***************************************************************************)
(* Bounds                                                                  *)
(***************************************************************************)
MaxCalls == 3       \* configuration calls on one builder
MaxOps == 1         \* send_request / open_tunnel computations alive at once
MaxBuf == 2         \* length of a buffer handed to poll_read / poll_write
MaxPipe == 3        \* bytes the in-memory transport holds
MaxConns == 2       \* connections the built service accepts
MaxReqs == 2        \* requests read from one connection

(***************************************************************************)
(* HttpServiceBuilder                                                      *)
(***************************************************************************)

\* new(): the defaults, builder.rs:36-39
DefaultKeepAliveSecs == 5
DefaultClientTimeout == 3000
DefaultClientDisconnect == 3000
DefaultHandshakeTimeout == 5000

\* KeepAlive (http::config): Timeout(seconds) | Os | Disabled
Timeout(n) == [ka |-> "Timeout", secs |-> n]
KeepAliveOs == [ka |-> "Os", secs |-> 0]
KeepAliveDisabled == [ka |-> "Disabled", secs |-> 0]

\* The values a run hands to the setters.
SecsVals == {0, 75}
MsVals == {0, 7}
KeepAliveArgs ==
    [ty : {"usize"}, v : SecsVals]
        \cup {[ty |-> "None", v |-> 0]}
        \cup [ty : {"KeepAlive"}, v : {KeepAliveOs, KeepAliveDisabled}]
ExpectArgs == {"X1", "X2"}
UpgradeArgs == {"U1", "U2"}
OnConnectArgs == {"f1", "f2"}
AppHandlers == {"app1", "app2"}

\* val.into() of keep_alive: usize -> Timeout(n), Option<usize> None -> Disabled,
\* a KeepAlive is itself
IntoKeepAlive(val) ==
    CASE val.ty = "usize" -> Timeout(val.v)
      [] val.ty = "None" -> KeepAliveDisabled
      [] OTHER -> val.v

\* x.into_factory(): the handler as a service factory
IntoFactory(f) == [factory |-> f]

\* ExpectHandler, the default expect service: passes the request through
ExpectHandler == [factory |-> "ExpectHandler"]

None == [some |-> FALSE]
Some(v) == [some |-> TRUE, v |-> v]

\* Rc::new(move |io| Box::new(Data(f(io)))), builder.rs:171
DataFactoryOf(f) == [rc |-> "Fn", boxed |-> "Data", f |-> f]

\* Faulty variant of new: client and handshake defaults exchanged.
new_swapped ==
    [keep_alive |-> Timeout(DefaultKeepAliveSecs),
     client_timeout |-> DefaultHandshakeTimeout,
     client_disconnect |-> DefaultClientDisconnect,
     handshake_timeout |-> DefaultClientTimeout,
     expect |-> ExpectHandler,
     upgrade |-> None,
     on_connect |-> None]

new ==
    [keep_alive |-> Timeout(DefaultKeepAliveSecs),
     client_timeout |-> DefaultClientTimeout,
     client_disconnect |-> DefaultClientDisconnect,
     handshake_timeout |-> DefaultHandshakeTimeout,
     expect |-> ExpectHandler,
     upgrade |-> None,
     on_connect |-> None]

keep_alive(self, val) == [self EXCEPT !.keep_alive = IntoKeepAlive(val)]

\* Faulty variant of client_timeout: the disconnect timeout is set as well.
client_timeout_sets_both(self, val) ==
    [self EXCEPT !.client_timeout = val, !.client_disconnect = val]

client_timeout(self, val) == [self EXCEPT !.client_timeout = val]

disconnect_timeout(self, val) == [self EXCEPT !.client_disconnect = val]

ssl_handshake_timeout(self, val) == [self EXCEPT !.handshake_timeout = val]

\* Faulty variant of expect: client_timeout falls back to its default.
expect_resets_timeout(self, x) ==
    [keep_alive |-> self.keep_alive,
     client_timeout |-> DefaultClientTimeout,
     client_disconnect |-> self.client_disconnect,
     handshake_timeout |-> self.handshake_timeout,
     expect |-> IntoFactory(x),
     upgrade |-> self.upgrade,
     on_connect |-> self.on_connect]

expect(self, x) ==
    [keep_alive |-> self.keep_alive,
     client_timeout |-> self.client_timeout,
     client_disconnect |-> self.client_disconnect,
     handshake_timeout |-> self.handshake_timeout,
     expect |-> IntoFactory(x),
     upgrade |-> self.upgrade,
     on_connect |-> self.on_connect]

\* Faulty variant of upgrade: a handler already present is kept.
upgrade_keeps_first(self, u) ==
    [keep_alive |-> self.keep_alive,
     client_timeout |-> self.client_timeout,
     client_disconnect |-> self.client_disconnect,
     handshake_timeout |-> self.handshake_timeout,
     expect |-> self.expect,
     upgrade |-> IF self.upgrade.some THEN self.upgrade ELSE Some(IntoFactory(u)),
     on_connect |-> self.on_connect]

upgrade(self, u) ==
    [keep_alive |-> self.keep_alive,
     client_timeout |-> self.client_timeout,
     client_disconnect |-> self.client_disconnect,
     handshake_timeout |-> self.handshake_timeout,
     expect |-> self.expect,
     upgrade |-> Some(IntoFactory(u)),
     on_connect |-> self.on_connect]

on_connect(self, f) == [self EXCEPT !.on_connect = Some(DataFactoryOf(f))]

\* ServiceConfig::new(keep_alive, client_timeout, client_disconnect,
\* ssl_handshake_timeout): the timing record of the built service
ServiceConfig_new(ka, ct, cd, ht) ==
    [keep_alive |-> ka,
     client_timeout |-> ct,
     client_disconnect |-> cd,
     handshake_timeout |-> ht]

\* H1Service::with_config(cfg, srv).expect(x).upgrade(u).on_connect(c)
H1Service(cfg, srv, x, u, c) ==
    [proto |-> "h1", cfg |-> cfg, srv |-> srv,
     expect |-> x, upgrade |-> u, on_connect |-> c]

\* H2Service::with_config(cfg, srv).on_connect(c): no expect, no upgrade
H2Service(cfg, srv, c) ==
    [proto |-> "h2", cfg |-> cfg, srv |-> srv, on_connect |-> c]

\* HttpService::with_config(cfg, srv).expect(x).upgrade(u).on_connect(c)
HttpService(cfg, srv, x, u, c) ==
    [proto |-> "http", cfg |-> cfg, srv |-> srv,
     expect |-> x, upgrade |-> u, on_connect |-> c]

\* Faulty variant of h1: the upgrade handler is not handed over.
h1_drops_upgrade(self, srv) ==
    H1Service(ServiceConfig_new(self.keep_alive, self.client_timeout,
                                self.client_disconnect, self.handshake_timeout),
              IntoFactory(srv), self.expect, None, self.on_connect)

\* Faulty variant of h1: the default expect handler is handed over.
h1_default_expect(self, srv) ==
    H1Service(ServiceConfig_new(self.keep_alive, self.client_timeout,
                                self.client_disconnect, self.handshake_timeout),
              IntoFactory(srv), ExpectHandler, self.upgrade, self.on_connect)

h1(self, srv) ==
    H1Service(ServiceConfig_new(self.keep_alive, self.client_timeout,
                                self.client_disconnect, self.handshake_timeout),
              IntoFactory(srv), self.expect, self.upgrade, self.on_connect)

\* Faulty variant of h2: disconnect and handshake timeouts exchanged.
h2_swaps_timeouts(self, srv) ==
    H2Service(ServiceConfig_new(self.keep_alive, self.client_timeout,
                                self.handshake_timeout, self.client_disconnect),
              IntoFactory(srv), self.on_connect)

\* Faulty variant of h2: the context factory is not handed over.
h2_drops_on_connect(self, srv) ==
    H2Service(ServiceConfig_new(self.keep_alive, self.client_timeout,
                                self.client_disconnect, self.handshake_timeout),
              IntoFactory(srv), None)

h2(self, srv) ==
    H2Service(ServiceConfig_new(self.keep_alive, self.client_timeout,
                                self.client_disconnect, self.handshake_timeout),
              IntoFactory(srv), self.on_connect)

\* Faulty variant of finish: the upgrade handler is not handed over.
finish_drops_upgrade(self, srv) ==
    HttpService(ServiceConfig_new(self.keep_alive, self.client_timeout,
                                  self.client_disconnect, self.handshake_timeout),
                IntoFactory(srv), self.expect, None, self.on_connect)

\* Faulty variant of finish: the default expect handler is handed over.
finish_default_expect(self, srv) ==
    HttpService(ServiceConfig_new(self.keep_alive, self.client_timeout,
                                  self.client_disconnect, self.handshake_timeout),
                IntoFactory(srv), ExpectHandler, self.upgrade, self.on_connect)

finish(self, srv) ==
    HttpService(ServiceConfig_new(self.keep_alive, self.client_timeout,
                                  self.client_disconnect, self.handshake_timeout),
                IntoFactory(srv), self.expect, self.upgrade, self.on_connect)

NoService == [proto |-> "none"]

\* One configuration call: the builder is consumed and the updated one returned.
Configure(op, arg, next) ==
    /\ service = NoService
    /\ Len(calls) < MaxCalls
    /\ pre' = builder
    /\ builder' = next
    /\ calls' = Append(calls, [op |-> op, arg |-> arg])
    /\ UNCHANGED <<service, ops, sock, io, trip, conns>>

KeepAliveCall ==
    \E val \in KeepAliveArgs : Configure("keep_alive", val, keep_alive(builder, val))

ClientTimeoutCall ==
    \E val \in MsVals : Configure("client_timeout", val, client_timeout(builder, val))

DisconnectTimeoutCall ==
    \E val \in MsVals :
        Configure("disconnect_timeout", val, disconnect_timeout(builder, val))

SslHandshakeTimeoutCall ==
    \E val \in MsVals :
        Configure("ssl_handshake_timeout", val, ssl_handshake_timeout(builder, val))

ExpectCall ==
    \E x \in ExpectArgs : Configure("expect", x, expect(builder, x))

UpgradeCall ==
    \E u \in UpgradeArgs : Configure("upgrade", u, upgrade(builder, u))

OnConnectCall ==
    \E f \in OnConnectArgs : Configure("on_connect", f, on_connect(builder, f))

\* A terminal operation consumes the builder and yields the service.
Build(svc) ==
    /\ service = NoService
    /\ service' = svc
    /\ UNCHANGED <<builder, calls, pre, ops, sock, io, trip, conns>>

H1Call == \E srv \in AppHandlers : Build(h1(builder, srv))

H2Call == \E srv \in AppHandlers : Build(h2(builder, srv))

FinishCall == \E srv \in AppHandlers : Build(finish(builder, srv))

BuilderInit ==
    /\ builder = new
    /\ calls = <<>>
    /\ pre = new
    /\ service = NoService

BuilderNext ==
    \/ KeepAliveCall
    \/ ClientTimeoutCall
    \/ DisconnectTimeoutCall
    \/ SslHandshakeTimeoutCall
    \/ ExpectCall
    \/ UpgradeCall
    \/ OnConnectCall
    \/ H1Call
    \/ H2Call
    \/ FinishCall

(***************************************************************************)
(* ConnectorWrapper: send_request and open_tunnel                          *)
(***************************************************************************)
Ops == 1..MaxOps

\* RequestHeadType: Owned(RequestHead) | Rc(Rc<RequestHead>, Option<HeaderMap>)
RequestHeads ==
    {[ty |-> "Owned", head |-> [uri |-> "uriA", method |-> "GET"], extra |-> "-"],
     [ty |-> "Rc", head |-> [uri |-> "uriB", method |-> "CONNECT"], extra |-> "hdrs"]}
Bodies == {"body1", "body2"}
Addrs == {None, Some("addr1")}

\* What the resolver and the connection can answer.
ConnectErrors == {"Resolver", "Timeout"}
ResponseHeads == {"rhead1", "rhead2"}
Payloads == {"payload1"}
Transports == {"tcp", "tls"}

\* head.as_ref(): the RequestHead inside either variant
AsRef(head) == head.head

\* ClientConnect { uri, addr }
ClientConnect(uri, addr) == [uri |-> uri, addr |-> addr]

\* SendRequestError, and its From<ConnectError> used by `?`
SendRequestErrors ==
    {[err |-> "SendRequestError", variant |-> v, cause |-> "-"] : v \in {"Send", "H2"}}
FromConnectError(e) == [err |-> "SendRequestError", variant |-> "Connect", cause |-> e]

Ok(v) == [ok |-> TRUE, v |-> v]
Err(e) == [ok |-> FALSE, e |-> e]

\* ClientResponse::new(head, payload)
ClientResponse_new(head, payload) ==
    [ty |-> "ClientResponse", head |-> head, payload |-> payload]

\* Framed<Io, ClientCodec> and Framed::map_io: the io replaced, the rest kept
Framed(iov, buf) == [io |-> iov, codec |-> "ClientCodec", buf |-> buf]
map_io(framed, wrapped) == [framed EXCEPT !.io = wrapped]

\* struct Socket<T>(T) and struct BoxedSocket(Box<dyn AsyncSocket>)
Socket(t) == [ty |-> "Socket", io |-> t]
BoxedSocket(s) == [ty |-> "BoxedSocket", box |-> s]

\* |io| BoxedSocket(Box::new(Socket(io))), connect.rs:101
\* Faulty variant of EraseIo: the io is wrapped twice.
EraseIo_twice(iov) == BoxedSocket(Socket(BoxedSocket(Socket(iov))))

EraseIo(iov) == BoxedSocket(Socket(iov))

\* What the connection's future can complete with.
SendOutcomes ==
    {Ok([head |-> h, payload |-> p]) : h \in ResponseHeads, p \in Payloads}
        \cup {Err(e) : e \in SendRequestErrors}
TunnelOutcomes ==
    {Ok([head |-> h, framed |-> Framed([ty |-> t], "fbuf")]) :
        h \in ResponseHeads, t \in Transports}
        \cup {Err(e) : e \in SendRequestErrors}
OutcomesOf(kind) == IF kind = "send_request" THEN SendOutcomes ELSE TunnelOutcomes

\* A future: pending, or ready with an output; taken once its output was moved out.
Pending == [st |-> "pending", taken |-> FALSE]
Ready(out) == [st |-> "ready", out |-> out, taken |-> FALSE]
NoFuture == [st |-> "none", taken |-> FALSE]
Take(fut) == [fut EXCEPT !.taken = TRUE]

\* The connection of one operation: who owns it, and how often it was acquired
\* from the resolver and released.
NoConnection == [owner |-> "none", acquired |-> 0, released |-> 0]

\* The resolver's future completes with a Connection, which it owns until polled.
Acquire(c) == [c EXCEPT !.owner = "resolver", !.acquired = @ + 1]

\* Dropping a Connection, or a future that owns one, releases its resources.
Release(c) == [c EXCEPT !.owner = "released", !.released = @ + 1]

\* `let connection = fut.await?`: the connection is a local of the async block
TakeConnection(c) == [c EXCEPT !.owner = "adapter"]

\* Faulty variant of CallConnection: the adapter keeps the connection.
CallConnection_keeps(c) == c

\* connection.send_request(head, body) / connection.open_tunnel(head) take
\* self: the connection moves into the future they return
CallConnection(c) == [c EXCEPT !.owner = "connfut"]

\* The (head, payload) / (head, framed) the connection's future yields carries
\* the connection; the adapter moves it into the result.
MoveToResult(c) == IF c.owner = "connfut" THEN [c EXCEPT !.owner = "result"] ELSE c

\* Faulty variant of DropOwned: the connection's future is not dropped.
DropOwned_forgets_connfut(c) == IF c.owner \in {"resolver", "adapter"} THEN Release(c) ELSE c

\* Dropping the boxed async block drops what it owns: the resolver's future,
\* the local connection, the connection's future.
DropOwned(c) ==
    IF c.owner \in {"resolver", "adapter", "connfut"} THEN Release(c) ELSE c

Idle ==
    [kind |-> "none", pc |-> "idle", head |-> "-", body |-> "-", addr |-> None,
     resolver_calls |-> <<>>, fut |-> NoFuture, conn |-> NoConnection,
     conn_calls |-> <<>>, conn_fut |-> NoFuture, result |-> None]

\* Faulty variant of send_request: the caller's address is not passed on.
send_request_drops_addr(head, body, addr) ==
    [Idle EXCEPT !.kind = "send_request", !.pc = "created",
                 !.head = head, !.body = body, !.addr = addr,
                 !.resolver_calls = <<ClientConnect(AsRef(head).uri, None)>>,
                 !.fut = Pending]

\* send_request up to Box::pin: the resolver is called, the computation returned
send_request(head, body, addr) ==
    [Idle EXCEPT !.kind = "send_request", !.pc = "created",
                 !.head = head, !.body = body, !.addr = addr,
                 !.resolver_calls = <<ClientConnect(AsRef(head).uri, addr)>>,
                 !.fut = Pending]

\* Faulty variant of open_tunnel: the resolver is not called before the
\* computation is returned.
open_tunnel_lazy(head, addr) ==
    [Idle EXCEPT !.kind = "open_tunnel", !.pc = "created",
                 !.head = head, !.addr = addr,
                 !.fut = Pending]

\* open_tunnel up to Box::pin
open_tunnel(head, addr) ==
    [Idle EXCEPT !.kind = "open_tunnel", !.pc = "created",
                 !.head = head, !.addr = addr,
                 !.resolver_calls = <<ClientConnect(AsRef(head).uri, addr)>>,
                 !.fut = Pending]

\* Faulty variant of ResolveFailed: the resolver's error is replaced.
ResolveFailed_loses_cause(o) ==
    [o EXCEPT !.pc = "done", !.fut = Take(@),
              !.result = Some(Err(FromConnectError("Timeout")))]

\* `fut.await?` on Err(e): the computation ends with SendRequestError::from(e)
ResolveFailed(o) ==
    [o EXCEPT !.pc = "done", !.fut = Take(@),
              !.result = Some(Err(FromConnectError(o.fut.out.e)))]

\* `fut.await?` on Ok(connection), then the call on the connection; first is the
\* state of the future that call returns when the adapter polls it first
Resolved(o, call, first) ==
    [o EXCEPT !.pc = "operating", !.fut = Take(@),
              !.conn = CallConnection(TakeConnection(@)),
              !.conn_calls = Append(@, call),
              !.conn_fut = first]

\* .await.map(|(head, payload)| ClientResponse::new(head, payload))
Finish_send_request(o) ==
    IF o.conn_fut.st # "ready" THEN o
    ELSE IF o.conn_fut.out.ok
         THEN [o EXCEPT !.pc = "done", !.conn_fut = Take(@),
                        !.conn = MoveToResult(@),
                        !.result = Some(Ok(ClientResponse_new(o.conn_fut.out.v.head,
                                                              o.conn_fut.out.v.payload)))]
         ELSE [o EXCEPT !.pc = "done", !.conn_fut = Take(@),
                        !.result = Some(Err(o.conn_fut.out.e))]

\* let (head, framed) = connection.open_tunnel(head).await?;
\* Ok((head, framed.map_io(|io| BoxedSocket(Box::new(Socket(io))))))
Finish_open_tunnel(o) ==
    IF o.conn_fut.st # "ready" THEN o
    ELSE IF o.conn_fut.out.ok
         THEN [o EXCEPT !.pc = "done", !.conn_fut = Take(@),
                        !.conn = MoveToResult(@),
                        !.result = Some(Ok([head |-> o.conn_fut.out.v.head,
                                            framed |-> map_io(o.conn_fut.out.v.framed,
                                                              EraseIo(o.conn_fut.out.v.framed.io))]))]
         ELSE [o EXCEPT !.pc = "done", !.conn_fut = Take(@),
                        !.result = Some(Err(o.conn_fut.out.e))]

\* One poll of the async block of send_request (connect.rs:64-72)
Poll_send_request(o, first) ==
    IF o.pc \in {"created", "resolving"}
    THEN CASE o.fut.st = "pending" -> [o EXCEPT !.pc = "resolving"]
           [] ~o.fut.out.ok -> ResolveFailed(o)
           [] OTHER ->
                Finish_send_request(
                    Resolved(o, [op |-> "send_request", head |-> o.head,
                                 body |-> o.body], first))
    ELSE Finish_send_request(o)

\* One poll of the async block of open_tunnel (connect.rs:95-103)
Poll_open_tunnel(o, first) ==
    IF o.pc \in {"created", "resolving"}
    THEN CASE o.fut.st = "pending" -> [o EXCEPT !.pc = "resolving"]
           [] ~o.fut.out.ok -> ResolveFailed(o)
           [] OTHER ->
                Finish_open_tunnel(
                    Resolved(o, [op |-> "open_tunnel", head |-> o.head], first))
    ELSE Finish_open_tunnel(o)

Running(o) == o.pc \in {"created", "resolving", "operating"}

SendRequestCall(op) ==
    /\ ops[op].pc = "idle"
    /\ \E head \in RequestHeads, body \in Bodies, addr \in Addrs :
        ops' = [ops EXCEPT ![op] = send_request(head, body, addr)]
    /\ UNCHANGED <<builder, calls, pre, service, sock, io, trip, conns>>

OpenTunnelCall(op) ==
    /\ ops[op].pc = "idle"
    /\ \E head \in RequestHeads, addr \in Addrs :
        ops' = [ops EXCEPT ![op] = open_tunnel(head, addr)]
    /\ UNCHANGED <<builder, calls, pre, service, sock, io, trip, conns>>

\* The resolver's future becomes ready: with a connection, or with a ConnectError.
ResolverReady(op) ==
    /\ ops[op].pc \in {"created", "resolving"}
    /\ ops[op].fut.st = "pending"
    /\ \/ ops' = [ops EXCEPT ![op].fut = Ready(Ok("connection")),
                             ![op].conn = Acquire(@)]
       \/ \E e \in ConnectErrors :
            ops' = [ops EXCEPT ![op].fut = Ready(Err(e))]
    /\ UNCHANGED <<builder, calls, pre, service, sock, io, trip, conns>>

\* A connection whose future completed with an error has released itself
\* (the connection's own cleanup, not the adapter's).
ConnectionFailed(o) ==
    IF /\ o.conn_fut.st = "ready" /\ ~o.conn_fut.out.ok
       /\ o.conn.owner = "connfut"
    THEN [o EXCEPT !.conn = Release(@)] ELSE o

\* The connection's future becomes ready.
ConnectionReady(op) ==
    /\ ops[op].pc = "operating"
    /\ ops[op].conn_fut.st = "pending"
    /\ \E out \in OutcomesOf(ops[op].kind) :
        ops' = [ops EXCEPT ![op] = ConnectionFailed([@ EXCEPT !.conn_fut = Ready(out)])]
    /\ UNCHANGED <<builder, calls, pre, service, sock, io, trip, conns>>

\* The state of the connection's future at its first poll.
FirstPoll(kind) == {Pending} \cup {Ready(out) : out \in OutcomesOf(kind)}

PollSendRequest(op) ==
    /\ Running(ops[op]) /\ ops[op].kind = "send_request"
    /\ \E first \in FirstPoll("send_request") :
        LET o == ConnectionFailed(Poll_send_request(ops[op], first))
        IN  /\ o # ops[op]
            /\ ops' = [ops EXCEPT ![op] = o]
    /\ UNCHANGED <<builder, calls, pre, service, sock, io, trip, conns>>

PollOpenTunnel(op) ==
    /\ Running(ops[op]) /\ ops[op].kind = "open_tunnel"
    /\ \E first \in FirstPoll("open_tunnel") :
        LET o == ConnectionFailed(Poll_open_tunnel(ops[op], first))
        IN  /\ o # ops[op]
            /\ ops' = [ops EXCEPT ![op] = o]
    /\ UNCHANGED <<builder, calls, pre, service, sock, io, trip, conns>>

\* The caller drops the computation before it completed.
DropFuture(op) ==
    /\ Running(ops[op])
    /\ ops' = [ops EXCEPT ![op].pc = "dropped", ![op].conn = DropOwned(@)]
    /\ UNCHANGED <<builder, calls, pre, service, sock, io, trip, conns>>

ConnectorInit == ops = [op \in Ops |-> Idle]

ConnectorNext ==
    \E op \in Ops :
        \/ SendRequestCall(op)
        \/ OpenTunnelCall(op)
        \/ ResolverReady(op)
        \/ ConnectionReady(op)
        \/ PollSendRequest(op)
        \/ PollOpenTunnel(op)
        \/ DropFuture(op)

(***************************************************************************)
(* BoxedSocket over a transport                                            *)
(***************************************************************************)
Bytes == {0, 1}
ErrorKinds == {"ConnectionReset", "BrokenPipe"}

RECURSIVE SeqsUpTo(_)
SeqsUpTo(n) ==
    IF n = 0 THEN {<<>>}
    ELSE SeqsUpTo(n - 1) \cup [1..n -> Bytes]

Min(a, b) == IF a < b THEN a ELSE b

\* Poll<io::Result<..>>
PollPending == [poll |-> "Pending"]
ReadyOk(n, data) == [poll |-> "Ready", ok |-> TRUE, n |-> n, data |-> data]
ReadyErr(kind) == [poll |-> "Ready", ok |-> FALSE, kind |-> kind]

\* The wrapped transport: an in-memory duplex stream whose writes are read
\* back, which may also answer Pending or fail.  Each operation gives the set
\* of its possible (new transport, outcome) pairs.
Transport(pipe, shut) == [ty |-> "mem", pipe |-> pipe, shut |-> shut]

T_poll_read(t, n) ==
    {[t |-> t, res |-> PollPending]}
        \cup {[t |-> t, res |-> ReadyErr(k)] : k \in ErrorKinds}
        \cup {[t |-> [t EXCEPT !.pipe = SubSeq(@, k + 1, Len(@))],
               res |-> ReadyOk(k, SubSeq(t.pipe, 1, k))] :
                    k \in {j \in 0..Min(n, Len(t.pipe)) :
                            j > 0 \/ n = 0 \/ (t.pipe = <<>> /\ t.shut)}}

T_poll_write(t, buf) ==
    {[t |-> t, res |-> PollPending]}
        \cup {[t |-> t, res |-> ReadyErr(k)] : k \in ErrorKinds}
        \cup {[t |-> [t EXCEPT !.pipe = @ \o SubSeq(buf, 1, k)],
               res |-> ReadyOk(k, <<>>)] :
                    k \in {j \in 0..Min(Len(buf), MaxPipe - Len(t.pipe)) :
                            ~t.shut /\ (j > 0 \/ buf = <<>>)}}

T_poll_flush(t) ==
    {[t |-> t, res |-> PollPending], [t |-> t, res |-> ReadyOk(0, <<>>)]}
        \cup {[t |-> t, res |-> ReadyErr(k)] : k \in ErrorKinds}

T_poll_shutdown(t) ==
    {[t |-> t, res |-> PollPending],
     [t |-> [t EXCEPT !.shut = TRUE], res |-> ReadyOk(0, <<>>)]}
        \cup {[t |-> t, res |-> ReadyErr(k)] : k \in ErrorKinds}

T_prepare_uninitialized_buffer(t) == {[t |-> t, res |-> b] : b \in BOOLEAN}

\* impl AsyncSocket for Socket<T>: each accessor is the wrapped value
as_read(s) == s.io
as_read_mut(s) == s.io
as_write(s) == s.io

\* One call on the BoxedSocket: the socket after it, what it returned, and the
\* calls it made on the transport with their outcomes.
Forward(call, arg, r) ==
    [sock |-> BoxedSocket(Socket(r.t)),
     ret |-> r.res,
     fwd |-> <<[op |-> call, arg |-> arg, res |-> r.res, t |-> r.t]>>]

\* self.0.as_read().prepare_uninitialized_buffer(buf)
prepare_uninitialized_buffer(self) ==
    {Forward("prepare_uninitialized_buffer", 0, r) :
        r \in T_prepare_uninitialized_buffer(as_read(self.box))}

\* Faulty variant of poll_read: every error is returned with kind Other.
poll_read_maps_error(self, n) ==
    {[Forward("poll_read", n, r) EXCEPT
        !.ret = IF r.res.poll = "Ready" /\ ~r.res.ok THEN ReadyErr("Other") ELSE @] :
        r \in T_poll_read(as_read_mut(self.box), n)}

\* Pin::new(self.get_mut().0.as_read_mut()).poll_read(cx, buf)
poll_read(self, n) ==
    {Forward("poll_read", n, r) : r \in T_poll_read(as_read_mut(self.box), n)}

\* Faulty variant of poll_write: a partial write is reported as complete.
poll_write_reports_full(self, buf) ==
    {[Forward("poll_write", buf, r) EXCEPT
        !.ret = IF r.res.poll = "Ready" /\ r.res.ok THEN ReadyOk(Len(buf), <<>>) ELSE @] :
        r \in T_poll_write(as_write(self.box), buf)}

\* Pin::new(self.get_mut().0.as_write()).poll_write(cx, buf)
poll_write(self, buf) ==
    {Forward("poll_write", buf, r) : r \in T_poll_write(as_write(self.box), buf)}

\* Pin::new(self.get_mut().0.as_write()).poll_flush(cx)
poll_flush(self) ==
    {Forward("poll_flush", 0, r) : r \in T_poll_flush(as_write(self.box))}

\* Pin::new(self.get_mut().0.as_write()).poll_shutdown(cx)
poll_shutdown(self) ==
    {Forward("poll_shutdown", 0, r) : r \in T_poll_shutdown(as_write(self.box))}

NoCall == [op |-> "none", arg |-> 0, ret |-> PollPending, fwd |-> <<>>]

SocketCall(call, arg, outcomes) ==
    /\ \E out \in outcomes :
        /\ sock' = out.sock
        /\ io' = [op |-> call, arg |-> arg, ret |-> out.ret, fwd |-> out.fwd]
    /\ UNCHANGED <<builder, calls, pre, service, ops, trip, conns>>

PrepareCall ==
    SocketCall("prepare_uninitialized_buffer", 0, prepare_uninitialized_buffer(sock))

PollReadCall ==
    \E n \in 0..MaxBuf : SocketCall("poll_read", n, poll_read(sock, n))

PollWriteCall ==
    \E buf \in SeqsUpTo(MaxBuf) : SocketCall("poll_write", buf, poll_write(sock, buf))

PollFlushCall == SocketCall("poll_flush", 0, poll_flush(sock))

PollShutdownCall == SocketCall("poll_shutdown", 0, poll_shutdown(sock))

\* The socket open_tunnel makes of a fresh transport.
SocketInit ==
    /\ sock = EraseIo(Transport(<<>>, FALSE))
    /\ io = NoCall

SocketNext ==
    \/ PrepareCall
    \/ PollReadCall
    \/ PollWriteCall
    \/ PollFlushCall
    \/ PollShutdownCall

(***************************************************************************)
(* Round trip: N bytes written through the BoxedSocket, then read back     *)
(***************************************************************************)
NoTrip == [pc |-> "idle", data |-> <<>>, sent |-> 0, got |-> <<>>]

\* The next slice of the data the writer hands to poll_write.
Chunk(t) == SubSeq(t.data, t.sent + 1, Min(Len(t.data), t.sent + MaxBuf))

\* The writer after one poll_write that returned ret: n bytes accepted, Pending
\* (call again) or an error (give up).
AfterWrite(t, ret) ==
    IF ret.poll = "Pending" THEN t
    ELSE IF ~ret.ok THEN [t EXCEPT !.pc = "failed"]
    ELSE [t EXCEPT !.sent = @ + ret.n,
                   !.pc = IF t.sent + ret.n >= Len(t.data) THEN "reading" ELSE @]

\* The reader after one poll_read that returned ret.
AfterRead(t, ret) ==
    IF ret.poll = "Pending"
    THEN [t EXCEPT !.pc = IF Len(t.got) >= Len(t.data) THEN "done" ELSE @]
    ELSE IF ~ret.ok THEN [t EXCEPT !.pc = "failed"]
    ELSE [t EXCEPT !.got = @ \o ret.data,
                   !.pc = IF Len(t.got) + Len(ret.data) >= Len(t.data)
                          THEN "done" ELSE @]

TripStart ==
    /\ trip.pc = "idle"
    /\ \E data \in SeqsUpTo(MaxPipe) :
        trip' = [pc |-> "writing", data |-> data, sent |-> 0, got |-> <<>>]
    /\ UNCHANGED <<builder, calls, pre, service, ops, sock, io, conns>>

TripWrite ==
    /\ trip.pc = "writing"
    /\ \E out \in poll_write(sock, Chunk(trip)) :
        /\ sock' = out.sock
        /\ io' = [op |-> "poll_write", arg |-> Chunk(trip),
                  ret |-> out.ret, fwd |-> out.fwd]
        /\ trip' = AfterWrite(trip, out.ret)
    /\ UNCHANGED <<builder, calls, pre, service, ops, conns>>

TripRead ==
    /\ trip.pc = "reading"
    /\ \E n \in 0..MaxBuf : \E out \in poll_read(sock, n) :
        /\ sock' = out.sock
        /\ io' = [op |-> "poll_read", arg |-> n, ret |-> out.ret, fwd |-> out.fwd]
        /\ trip' = AfterRead(trip, out.ret)
    /\ UNCHANGED <<builder, calls, pre, service, ops, conns>>

RoundTripInit == trip = NoTrip

RoundTripNext == TripStart \/ TripWrite \/ TripRead

(***************************************************************************)
(* The built service at run time: connections and request dispatch         *)
(***************************************************************************)
Conns == 1..MaxConns

RequestKinds == {"plain", "expect", "upgrade"}

\* A request: whether it signals `Expect: 100-continue` or an upgrade, whether
\* a handler changed it, and the per-connection value in its extensions.
Request(id, kind, ext) == [id |-> id, kind |-> kind, modified |-> FALSE, ext |-> ext]
NoRequest == [id |-> 0, kind |-> "-", modified |-> FALSE, ext |-> None]

\* (on_connect)(io): the callback of builder.rs:171 applied to the transport
CallDataFactory(df, iov) == [data |-> df.f, io |-> iov]

\* The connection's transport with the server's framing around it.
ServerFramed(iov) == [io |-> iov, codec |-> "Codec"]

\* The expect services of a run: the default passes the request on, X1 always
\* fails, X2 succeeds and returns the request changed.
ExpectService(x, req) ==
    CASE x = ExpectHandler -> Ok(req)
      [] x = IntoFactory("X1") -> Err("X1 failed")
      [] OTHER -> Ok([req EXCEPT !.modified = TRUE])

\* A response made of an error, and one made by the application handler.
ErrorResponse(e) == [from |-> "error", error |-> e]
AppResponse(req) == [from |-> "app", error |-> "-"]

Unaccepted ==
    [pc |-> "none", proto |-> "-", ctx |-> None, ctx_calls |-> 0,
     nreq |-> 0, req |-> NoRequest,
     expect_calls |-> 0, expect_got |-> NoRequest,
     app_calls |-> 0, app_got |-> NoRequest,
     upgrade_calls |-> 0, upgrade_got |-> None,
     responses |-> <<>>, transport |-> "dispatcher"]

\* The protocols a connection of the service can speak.
ProtosOf(svc) ==
    CASE svc.proto = "h1" -> {"h1"}
      [] svc.proto = "h2" -> {"h2"}
      [] OTHER -> {"h1", "h2"}

\* A connection is accepted: the context factory, when there is one, runs once.
Accepted(svc, c, proto) ==
    [Unaccepted EXCEPT
        !.pc = "idle", !.proto = proto,
        !.ctx = IF svc.on_connect.some
                THEN Some(CallDataFactory(svc.on_connect.v, c)) ELSE None,
        !.ctx_calls = IF svc.on_connect.some THEN 1 ELSE 0]

\* A request is read and handed on: to the upgrade service with the framed
\* transport, to the expect service, or to the application handler.
Dispatch(svc, k, c, kind) ==
    LET req == Request(k.nreq + 1, kind, k.ctx)
        fresh == [k EXCEPT !.nreq = @ + 1, !.req = req,
                           !.expect_calls = 0, !.expect_got = NoRequest,
                           !.app_calls = 0, !.app_got = NoRequest,
                           !.responses = <<>>]
    IN  IF k.proto = "h1" /\ kind = "upgrade" /\ svc.upgrade.some
        THEN [fresh EXCEPT !.pc = "upgrade", !.upgrade_calls = @ + 1,
                           !.upgrade_got = Some([by |-> svc.upgrade.v, req |-> req,
                                                 framed |-> ServerFramed(c)]),
                           !.transport = "upgrade"]
        ELSE IF k.proto = "h1" /\ kind = "expect"
        THEN [fresh EXCEPT !.pc = "expect", !.expect_calls = @ + 1,
                           !.expect_got = req]
        ELSE [fresh EXCEPT !.pc = "app", !.app_calls = @ + 1, !.app_got = req]

\* The expect service answered: its request goes to the application handler,
\* its error becomes the response.
ExpectAnswered(svc, k) ==
    LET r == ExpectService(svc.expect, k.expect_got)
    IN  IF r.ok
        THEN [k EXCEPT !.pc = "app", !.app_calls = @ + 1, !.app_got = r.v]
        ELSE [k EXCEPT !.pc = "idle", !.responses = Append(@, ErrorResponse(r.e))]

\* The application handler answered: its response is sent.
AppAnswered(k) ==
    [k EXCEPT !.pc = "idle", !.responses = Append(@, AppResponse(k.app_got))]

Accept(c) ==
    /\ service # NoService
    /\ conns[c].pc = "none"
    /\ \E proto \in ProtosOf(service) :
        conns' = [conns EXCEPT ![c] = Accepted(service, c, proto)]
    /\ UNCHANGED <<builder, calls, pre, service, ops, sock, io, trip>>

Receive(c) ==
    /\ conns[c].pc = "idle"
    /\ conns[c].nreq < MaxReqs
    /\ \E kind \in RequestKinds :
        conns' = [conns EXCEPT ![c] = Dispatch(service, @, c, kind)]
    /\ UNCHANGED <<builder, calls, pre, service, ops, sock, io, trip>>

ExpectDone(c) ==
    /\ conns[c].pc = "expect"
    /\ conns' = [conns EXCEPT ![c] = ExpectAnswered(service, @)]
    /\ UNCHANGED <<builder, calls, pre, service, ops, sock, io, trip>>

AppDone(c) ==
    /\ conns[c].pc = "app"
    /\ conns' = [conns EXCEPT ![c] = AppAnswered(@)]
    /\ UNCHANGED <<builder, calls, pre, service, ops, sock, io, trip>>

\* The upgrade service finished; it keeps the transport and no response is sent.
UpgradeDone(c) ==
    /\ conns[c].pc = "upgrade"
    /\ conns' = [conns EXCEPT ![c].pc = "closed"]
    /\ UNCHANGED <<builder, calls, pre, service, ops, sock, io, trip>>

ServiceRunInit == conns = [c \in Conns |-> Unaccepted]

ServiceNext ==
    \E c \in Conns :
        \/ Accept(c)
        \/ Receive(c)
        \/ ExpectDone(c)
        \/ AppDone(c)
        \/ UpgradeDone(c)

(***************************************************************************)
(* Specifications                                                          *)
(***************************************************************************)
Init ==
    /\ BuilderInit
    /\ ConnectorInit
    /\ SocketInit
    /\ RoundTripInit
    /\ ServiceRunInit

SpecBuilder == Init /\ [][BuilderNext]_vars

SpecConnector == Init /\ [][ConnectorNext]_vars

SpecSocket == Init /\ [][SocketNext]_vars

SpecRoundTrip == Init /\ [][RoundTripNext]_vars

Next == BuilderNext \/ ConnectorNext \/ SocketNext \/ RoundTripNext \/ ServiceNext

Spec == Init /\ [][Next]_vars

(***************************************************************************)
(* Properties of the builder                                               *)
(***************************************************************************)
Last(s) == s[Len(s)]

TimingOf(b) ==
    [keep_alive |-> b.keep_alive,
     client_timeout |-> b.client_timeout,
     client_disconnect |-> b.client_disconnect,
     handshake_timeout |-> b.handshake_timeout]

\* The builder after one recorded call, and after a sequence of them from new().
Apply(b, c) ==
    CASE c.op = "keep_alive" -> keep_alive(b, c.arg)
      [] c.op = "client_timeout" -> client_timeout(b, c.arg)
      [] c.op = "disconnect_timeout" -> disconnect_timeout(b, c.arg)
      [] c.op = "ssl_handshake_timeout" -> ssl_handshake_timeout(b, c.arg)
      [] c.op = "expect" -> expect(b, c.arg)
      [] c.op = "upgrade" -> upgrade(b, c.arg)
      [] c.op = "on_connect" -> on_connect(b, c.arg)

RECURSIVE Replay(_)
Replay(cs) ==
    IF cs = <<>> THEN new
    ELSE Apply(Replay(SubSeq(cs, 1, Len(cs) - 1)), Last(cs))

IsHandlerSwap(c) == c.op \in {"expect", "upgrade"}

WithoutHandlerSwaps(cs) == SelectSeq(cs, LAMBDA c : ~IsHandlerSwap(c))

\* The argument of the last call of setter op, or absent.
LastArgOf(op) ==
    LET at == {i \in 1..Len(calls) : calls[i].op = op}
    IN  IF at = {} THEN None
        ELSE Some(calls[CHOOSE i \in at : \A j \in at : j <= i].arg)

\* C4: a call of expect or upgrade leaves keep_alive, client_timeout,
\* client_disconnect, handshake_timeout and on_connect as they were; expect
\* leaves upgrade unchanged and upgrade leaves expect unchanged; so the timing
\* policy and the context factory are those of the same call sequence with the
\* expect / upgrade calls taken out.
C4_HandlerSwapFrame ==
    /\ (calls # <<>> /\ IsHandlerSwap(Last(calls))) =>
            /\ TimingOf(builder) = TimingOf(pre)
            /\ builder.on_connect = pre.on_connect
            /\ (Last(calls).op = "expect" => builder.upgrade = pre.upgrade)
            /\ (Last(calls).op = "upgrade" => builder.expect = pre.expect)
    /\ LET plain == Replay(WithoutHandlerSwaps(calls))
       IN  /\ TimingOf(builder) = TimingOf(plain)
           /\ builder.on_connect = plain.on_connect

\* C4 witness: expect was called after the timing and the context factory had
\* been changed from their defaults.
C4_Witness ==
    /\ Len(calls) = 3
    /\ calls[1].op = "client_timeout" /\ calls[1].arg = 7
    /\ calls[2].op = "on_connect"
    /\ calls[3].op = "expect"
    /\ builder.expect = IntoFactory("X2")

\* C5: a builder made by new() and finished with no configuration call has
\* keep_alive Timeout(5), client timeout 3000, disconnect timeout 3000 and
\* handshake timeout 5000, the pass-through expect handler, no upgrade handler
\* and no context factory, and the service built from it gets these.
C5_Defaults ==
    calls = <<>> =>
        /\ builder = [keep_alive |-> [ka |-> "Timeout", secs |-> 5],
                      client_timeout |-> 3000,
                      client_disconnect |-> 3000,
                      handshake_timeout |-> 5000,
                      expect |-> ExpectHandler,
                      upgrade |-> [some |-> FALSE],
                      on_connect |-> [some |-> FALSE]]
        /\ service # NoService =>
            /\ service.cfg = [keep_alive |-> [ka |-> "Timeout", secs |-> 5],
                              client_timeout |-> 3000,
                              client_disconnect |-> 3000,
                              handshake_timeout |-> 5000]
            /\ service.on_connect = [some |-> FALSE]
            /\ service.proto \in {"h1", "http"} =>
                /\ service.expect = ExpectHandler
                /\ service.upgrade = [some |-> FALSE]

\* C5 witness: finish() directly after new().
C5_Witness == calls = <<>> /\ service # NoService /\ service.proto = "http"

\* C6: the timing record of the built service holds, per field, the argument of
\* the last call of that field's setter (converted by into() for keep_alive), or
\* the default when the setter was never called; 0 stays 0; and h1, h2 and
\* finish give the same record from the same builder.
C6_TimingPropagated ==
    /\ service # NoService =>
        LET ka == LastArgOf("keep_alive")
            ct == LastArgOf("client_timeout")
            cd == LastArgOf("disconnect_timeout")
            ht == LastArgOf("ssl_handshake_timeout")
        IN  /\ service.cfg.keep_alive =
                    (IF ka.some THEN IntoKeepAlive(ka.v)
                     ELSE [ka |-> "Timeout", secs |-> 5])
            /\ service.cfg.client_timeout = (IF ct.some THEN ct.v ELSE 3000)
            /\ service.cfg.client_disconnect = (IF cd.some THEN cd.v ELSE 3000)
            /\ service.cfg.handshake_timeout = (IF ht.some THEN ht.v ELSE 5000)
    /\ \A srv \in AppHandlers :
        /\ h1(builder, srv).cfg = h2(builder, srv).cfg
        /\ h2(builder, srv).cfg = finish(builder, srv).cfg

\* C6 witness: h2 after client_timeout(7), client_timeout(0) and
\* disconnect_timeout(7): the later call wins and 0 is handed on as 0.
C6_Witness ==
    /\ service # NoService /\ service.proto = "h2"
    /\ Len(calls) = 3
    /\ calls[1] = [op |-> "client_timeout", arg |-> 7]
    /\ calls[2] = [op |-> "client_timeout", arg |-> 0]
    /\ calls[3] = [op |-> "disconnect_timeout", arg |-> 7]
    /\ service.cfg.client_timeout = 0

\* C7: h1 and finish hand the builder's expect handler, upgrade handler
\* (present or absent) and context factory to the service; h2 hands over the
\* context factory only, and the h2 service is the same whatever expect and
\* upgrade handlers the builder holds.
C7_HandlersInjected ==
    service # NoService =>
        /\ service.on_connect = builder.on_connect
        /\ service.proto \in {"h1", "http"} =>
            /\ service.expect = builder.expect
            /\ service.upgrade = builder.upgrade
        /\ service.proto = "h2" =>
            /\ DOMAIN service = {"proto", "cfg", "srv", "on_connect"}
            /\ \A x \in ExpectArgs, u \in UpgradeArgs :
                h2(upgrade(expect(builder, x), u), service.srv.factory) = service

\* C7 witness: an h1 service built after expect, upgrade and on_connect.
C7_Witness ==
    /\ service # NoService /\ service.proto = "h1"
    /\ builder.expect # ExpectHandler
    /\ builder.upgrade.some
    /\ builder.on_connect.some

\* C7, second case: an h2 service built from a builder holding custom expect
\* and upgrade handlers.
C7_WitnessH2 ==
    /\ service # NoService /\ service.proto = "h2"
    /\ builder.expect # ExpectHandler
    /\ builder.upgrade.some

FieldSetters ==
    {"keep_alive", "client_timeout", "disconnect_timeout",
     "ssl_handshake_timeout", "on_connect"}

Fields ==
    {"keep_alive", "client_timeout", "client_disconnect", "handshake_timeout",
     "expect", "upgrade", "on_connect"}

\* The one field a setter is for.
FieldOf(op) ==
    CASE op = "keep_alive" -> "keep_alive"
      [] op = "client_timeout" -> "client_timeout"
      [] op = "disconnect_timeout" -> "client_disconnect"
      [] op = "ssl_handshake_timeout" -> "handshake_timeout"
      [] op = "on_connect" -> "on_connect"

\* The call sequence with the calls at i and i + 1 exchanged.
SwapAt(cs, i) ==
    [j \in 1..Len(cs) |-> IF j = i THEN cs[i + 1] ELSE IF j = i + 1 THEN cs[i] ELSE cs[j]]

\* C16: a call of keep_alive, client_timeout, disconnect_timeout,
\* ssl_handshake_timeout or on_connect leaves every field but its own as it
\* was (the expect and upgrade handlers included); and exchanging two
\* neighbouring calls of such setters of different fields gives the same builder.
C16_SetterFrame ==
    /\ (calls # <<>> /\ Last(calls).op \in FieldSetters) =>
            \A f \in Fields \ {FieldOf(Last(calls).op)} : builder[f] = pre[f]
    /\ \A i \in 1..(Len(calls) - 1) :
            (/\ calls[i].op \in FieldSetters
             /\ calls[i + 1].op \in FieldSetters
             /\ calls[i].op # calls[i + 1].op) =>
                Replay(SwapAt(calls, i)) = builder

\* C16 witness: three setters of three different fields, each changing its
\* field from the default.
C16_Witness ==
    /\ Len(calls) = 3
    /\ calls[1].op = "client_timeout" /\ calls[1].arg = 7
    /\ calls[2].op = "on_connect"
    /\ calls[3].op = "disconnect_timeout" /\ calls[3].arg = 0
    /\ builder.client_timeout = 7 /\ builder.client_disconnect = 0
    /\ builder.on_connect.some

CalledOnce(op) == \E i \in 1..Len(calls) : calls[i].op = op

\* C18: the upgrade handler is present exactly when upgrade has been called,
\* the context factory exactly when on_connect has been called, and the expect
\* handler, the upgrade handler and the context factory are those of the last
\* call of expect, upgrade and on_connect (the pass-through expect handler
\* when expect was never called).
C18_LastHandlerWins ==
    /\ builder.upgrade.some <=> CalledOnce("upgrade")
    /\ builder.on_connect.some <=> CalledOnce("on_connect")
    /\ builder.expect = ExpectHandler <=> ~CalledOnce("expect")
    /\ CalledOnce("expect") => builder.expect.factory = LastArgOf("expect").v
    /\ CalledOnce("upgrade") => builder.upgrade.v.factory = LastArgOf("upgrade").v
    /\ CalledOnce("on_connect") => builder.on_connect.v.f = LastArgOf("on_connect").v

\* C18 witness: upgrade called twice with different handlers, then a timing
\* setter; the second handler is in effect.
C18_Witness ==
    /\ Len(calls) = 3
    /\ calls[1] = [op |-> "upgrade", arg |-> "U1"]
    /\ calls[2] = [op |-> "upgrade", arg |-> "U2"]
    /\ calls[3].op = "keep_alive"
    /\ builder.upgrade.v.factory = "U2"

(***************************************************************************)
(* Properties of the connector adapter                                     *)
(***************************************************************************)
Finished(o) == o.pc \in {"done", "dropped"}

ResolvedOk(o) == o.fut.st = "ready" /\ o.fut.out.ok

ResolvedErr(o) == o.fut.st = "ready" /\ ~o.fut.out.ok

Succeeded(o) == o.pc = "done" /\ o.result.some /\ o.result.v.ok

Failed(o) == o.pc = "done" /\ o.result.some /\ ~o.result.v.ok

\* C1: every operation asks the resolver once; a connection is acquired once
\* when resolution succeeds and never when it fails; when the operation has
\* finished (completed or dropped) the connection it acquired is owned by the
\* result of a successful operation or has been released; the adapter itself
\* never holds a connection between two polls, and only a running computation's
\* futures do.
C1_NoLeakedConnection ==
    \A op \in Ops :
        LET o == ops[op]
        IN  /\ o.pc # "idle" => Len(o.resolver_calls) = 1
            /\ o.conn.acquired = (IF ResolvedOk(o) THEN 1 ELSE 0)
            /\ o.conn.released <= o.conn.acquired
            /\ o.conn.owner # "adapter"
            /\ o.conn.owner \in {"resolver", "connfut"} => Running(o)
            /\ Finished(o) =>
                /\ o.conn.owner \in {"none", "result", "released"}
                /\ o.conn.owner = "none" <=> o.conn.acquired = 0
                /\ o.conn.owner = "result" =>
                        Succeeded(o) /\ o.conn.released = 0
                /\ o.conn.owner = "released" => o.conn.released = 1
                /\ Succeeded(o) => o.conn.owner = "result"

\* C1 witness: an operation that failed after resolution, its connection released.
C1_Witness ==
    \E op \in Ops :
        /\ Failed(ops[op]) /\ ResolvedOk(ops[op])
        /\ ops[op].kind = "send_request"
        /\ ops[op].conn.owner = "released"

\* C2: when the resolver fails, the operation completes with the resolver's
\* error inside a SendRequestError and the connection's operation is never
\* invoked; an invocation of the connection's operation has a successful
\* resolution of the same operation before it.
C2_ResolveErrorShortCircuits ==
    \A op \in Ops :
        LET o == ops[op]
        IN  /\ (ResolvedErr(o) /\ o.pc = "done") =>
                /\ o.result = [some |-> TRUE,
                               v |-> [ok |-> FALSE,
                                      e |-> [err |-> "SendRequestError",
                                             variant |-> "Connect",
                                             cause |-> o.fut.out.e]]]
                /\ o.conn_calls = <<>>
            /\ ResolvedErr(o) => o.conn_calls = <<>> /\ o.conn_fut.st = "none"
            /\ o.conn_calls # <<>> => ResolvedOk(o) /\ o.fut.taken

\* C2 witness: open_tunnel completed after the resolver failed with "Resolver".
C2_Witness ==
    \E op \in Ops :
        /\ ops[op].kind = "open_tunnel" /\ ops[op].pc = "done"
        /\ ResolvedErr(ops[op]) /\ ops[op].fut.out.e = "Resolver"

\* C3: a computation dropped before completion (before its first poll, while
\* resolution is pending, while the connection's operation is pending) has
\* released exactly the connections it acquired, and no connection is ever
\* released twice.
C3_DropReleasesOnce ==
    \A op \in Ops :
        /\ ops[op].conn.released <= 1
        /\ ops[op].pc = "dropped" =>
            /\ ops[op].conn.released = ops[op].conn.acquired
            /\ ops[op].conn.owner \in {"none", "released"}

\* C3 witness: dropped while the connection's operation was pending.
C3_Witness ==
    \E op \in Ops :
        /\ ops[op].pc = "dropped"
        /\ ops[op].conn_fut.st = "pending"
        /\ ops[op].conn.acquired = 1 /\ ops[op].conn.released = 1

\* C3, other cancellation points: dropped before the first poll with a
\* resolved connection waiting, and dropped while resolution was pending.
C3_WitnessUnpolled ==
    \E op \in Ops :
        /\ ops[op].pc = "dropped" /\ ~ops[op].fut.taken
        /\ ResolvedOk(ops[op]) /\ ops[op].conn.released = 1

\* C17: from the moment send_request or open_tunnel has returned (so before
\* the first poll, and also when the computation is dropped unpolled) the
\* resolver has been invoked exactly once, with the request's uri and the
\* caller's address; the connection's operation is invoked once when the
\* adapter has taken a successful resolution and never otherwise, so neither
\* a failed resolution nor a failed operation is followed by another attempt.
C17_ResolverOnceAtCall ==
    \A op \in Ops :
        LET o == ops[op]
        IN  /\ o.pc = "idle" => o.resolver_calls = <<>>
            /\ o.pc # "idle" =>
                o.resolver_calls = <<[uri |-> o.head.head.uri, addr |-> o.addr]>>
            /\ Len(o.conn_calls) = (IF o.fut.taken /\ ResolvedOk(o) THEN 1 ELSE 0)
            /\ Failed(o) => Len(o.resolver_calls) = 1 /\ Len(o.conn_calls) <= 1

\* C17 witness: open_tunnel has returned and its computation was never polled.
C17_Witness ==
    \E op \in Ops :
        /\ ops[op].kind = "open_tunnel" /\ ops[op].pc = "created"
        /\ Len(ops[op].resolver_calls) = 1

\* C17, after a failure: the connection's operation failed and was invoked once.
C17_WitnessFailed ==
    \E op \in Ops :
        /\ Failed(ops[op]) /\ ResolvedOk(ops[op])
        /\ Len(ops[op].conn_calls) = 1 /\ Len(ops[op].resolver_calls) = 1

\* C9: when open_tunnel succeeds, the result is the response head the
\* connection produced and the framed transport with its io, whatever its
\* type, inside one BoxedSocket around one Socket; nothing else of the framed
\* value changes.
C9_TunnelErasedOnce ==
    \A op \in Ops :
        LET o == ops[op]
        IN  (o.kind = "open_tunnel" /\ o.pc = "done" /\ ResolvedOk(o)
                /\ o.conn_fut.out.ok) =>
            LET got == o.conn_fut.out.v
            IN  o.result =
                    [some |-> TRUE,
                     v |-> [ok |-> TRUE,
                            v |-> [head |-> got.head,
                                   framed |-> [io |-> [ty |-> "BoxedSocket",
                                                       box |-> [ty |-> "Socket",
                                                                io |-> got.framed.io]],
                                               codec |-> got.framed.codec,
                                               buf |-> got.framed.buf]]]]

\* C9 witness: a tunnel over a tls transport.
C9_Witness ==
    \E op \in Ops :
        /\ ops[op].kind = "open_tunnel" /\ Succeeded(ops[op])
        /\ ops[op].conn_fut.out.v.framed.io.ty = "tls"
        /\ ops[op].result.v.v.framed.io.ty = "BoxedSocket"

\* C10: send_request asks the resolver for {uri: the head's uri, addr: the
\* caller's address}, calls the connection's send_request only after a
\* successful resolution and with the caller's head and body, and on success
\* returns the Response of exactly the (head, payload) the connection
\* returned; a failure of resolution or of the exchange ends in a
\* SendRequestError and no Response.
C10_SendRequestFlow ==
    \A op \in Ops :
        LET o == ops[op]
        IN  o.kind = "send_request" =>
            /\ o.resolver_calls = <<[uri |-> o.head.head.uri, addr |-> o.addr]>>
            /\ o.conn_calls # <<>> =>
                /\ ResolvedOk(o)
                /\ o.conn_calls = <<[op |-> "send_request", head |-> o.head,
                                     body |-> o.body]>>
            /\ o.pc = "done" =>
                /\ o.result.some
                /\ (ResolvedOk(o) /\ o.conn_fut.out.ok) =>
                    o.result.v = [ok |-> TRUE,
                                  v |-> [ty |-> "ClientResponse",
                                         head |-> o.conn_fut.out.v.head,
                                         payload |-> o.conn_fut.out.v.payload]]
                /\ (ResolvedOk(o) /\ ~o.conn_fut.out.ok) =>
                    o.result.v = [ok |-> FALSE, e |-> o.conn_fut.out.e]
                /\ ResolvedErr(o) =>
                    /\ ~o.result.v.ok
                    /\ o.result.v.e.err = "SendRequestError"
                /\ ~o.result.v.ok => o.result.v.e.err = "SendRequestError"

\* C10 witness: a successful exchange to a given address.
C10_Witness ==
    \E op \in Ops :
        /\ ops[op].kind = "send_request" /\ Succeeded(ops[op])
        /\ ops[op].addr.some
        /\ ops[op].result.v.v.head = "rhead2"

(***************************************************************************)
(* Properties of the erased socket                                         *)
(***************************************************************************)

\* C8: every call on the BoxedSocket (read, write, flush, shutdown, and the
\* buffer hint) makes exactly one call of the same operation on the wrapped
\* transport, with the same buffer, and returns exactly what that call
\* returned: Pending, a partial byte count and its bytes, or an error with its
\* kind; the socket is nothing but the transport as that call left it, with no
\* bytes of its own.
C8_DirectForward ==
    /\ DOMAIN sock = {"ty", "box"} /\ sock.ty = "BoxedSocket"
    /\ DOMAIN sock.box = {"ty", "io"} /\ sock.box.ty = "Socket"
    /\ sock.box.io.ty = "mem"
    /\ io.op # "none" =>
        /\ Len(io.fwd) = 1
        /\ io.fwd[1].op = io.op
        /\ io.fwd[1].arg = io.arg
        /\ io.ret = io.fwd[1].res
        /\ sock.box.io = io.fwd[1].t

\* C8 witness: a read that the transport failed with ConnectionReset.
C8_Witness ==
    /\ io.op = "poll_read"
    /\ io.ret = [poll |-> "Ready", ok |-> FALSE, kind |-> "ConnectionReset"]
    /\ Len(sock.box.io.pipe) = 2

\* C8, other outcomes: a partial write, and a pending read.
C8_WitnessPartialWrite ==
    /\ io.op = "poll_write" /\ Len(io.arg) = 2
    /\ io.ret.poll = "Ready" /\ io.ret.ok /\ io.ret.n = 1

(***************************************************************************)
(* Properties of the round trip                                            *)
(***************************************************************************)
IsPrefix(a, b) == Len(a) <= Len(b) /\ a = SubSeq(b, 1, Len(a))

\* C11: N bytes written to a BoxedSocket over the in-memory transport and then
\* read come back the same and in the same order, for N = 0 too and when the
\* writes and reads complete in several partial steps: the bytes read so far
\* followed by those still in the transport are the bytes written so far, and
\* a finished round trip has read exactly the data.
C11_RoundTrip ==
    trip.pc \in {"writing", "reading", "done"} =>
        /\ trip.sent <= Len(trip.data)
        /\ trip.got \o sock.box.io.pipe = SubSeq(trip.data, 1, trip.sent)
        /\ IsPrefix(trip.got, trip.data)
        /\ trip.pc \in {"reading", "done"} => trip.sent = Len(trip.data)
        /\ trip.pc = "done" => trip.got = trip.data

\* C11 witness: three bytes, not all alike, made the round trip, and the last
\* read returned fewer bytes than were written.
C11_Witness ==
    /\ trip.pc = "done"
    /\ Len(trip.data) = 3 /\ trip.data[1] # trip.data[3]
    /\ trip.got = trip.data
    /\ io.op = "poll_read" /\ io.ret.poll = "Ready" /\ io.ret.ok /\ io.ret.n = 1

\* C11, N = 0: an empty write and a read that found nothing.
C11_WitnessEmpty == trip.pc = "done" /\ trip.data = <<>> /\ io.op = "poll_read"

(***************************************************************************)
(* The service specification: a builder configured with handlers, finished *)
(* by h1, h2 or finish, and the service then accepting connections         *)
(***************************************************************************)
OptionalCall(op, args) == {<<>>} \cup {<<[op |-> op, arg |-> a]>> : a \in args}

\* expect, upgrade and on_connect, each called or not
ServiceSetups ==
    {x \o u \o f : x \in OptionalCall("expect", ExpectArgs),
                   u \in OptionalCall("upgrade", {"U1"}),
                   f \in OptionalCall("on_connect", {"f1"})}

Terminal(t, b, srv) ==
    CASE t = "h1" -> h1(b, srv)
      [] t = "h2" -> h2(b, srv)
      [] OTHER -> finish(b, srv)

ServiceInit ==
    /\ \E cs \in ServiceSetups, t \in {"h1", "h2", "finish"} :
        /\ calls = cs
        /\ builder = Replay(cs)
        /\ pre = IF cs = <<>> THEN new ELSE Replay(SubSeq(cs, 1, Len(cs) - 1))
        /\ service = Terminal(t, Replay(cs), "app1")
    /\ ConnectorInit
    /\ SocketInit
    /\ RoundTripInit
    /\ ServiceRunInit

SpecService == ServiceInit /\ [][ServiceNext]_vars

(***************************************************************************)
(* Properties of the built service                                         *)
(***************************************************************************)

\* The connection speaks HTTP/1 and its latest request is of this kind.
H1Request(k, kind) == k.proto = "h1" /\ k.nreq > 0 /\ k.req.kind = kind

\* C12: on a service built with an expect handler that fails, a request
\* carrying the expectation never reaches the application handler, and its one
\* response is the one made of the expect handler's error.
C12_ExpectFailureShortCircuits ==
    \A c \in Conns :
        LET k == conns[c]
        IN  (builder.expect = [factory |-> "X1"] /\ H1Request(k, "expect")) =>
                /\ k.app_calls = 0
                /\ k.expect_calls = 1
                /\ k.pc \in {"expect", "idle"}
                /\ k.pc = "expect" => k.responses = <<>>
                /\ k.pc = "idle" =>
                    k.responses = <<[from |-> "error", error |-> "X1 failed"]>>

\* C12 witness: the error response of a failed expectation has been sent.
C12_Witness ==
    \E c \in Conns :
        /\ builder.expect = [factory |-> "X1"] /\ H1Request(conns[c], "expect")
        /\ service.proto = "h1"
        /\ conns[c].pc = "idle" /\ Len(conns[c].responses) = 1

\* C13: on a service built with an upgrade handler, a request that signals
\* upgrade goes to the upgrade handler as it was read, together with the
\* connection's framed transport; neither the application handler nor the
\* expect handler is invoked for it, no response is sent, and the connection
\* reads no further request: the transport stays with the upgrade handler.
C13_UpgradeTakesOver ==
    \A c \in Conns :
        LET k == conns[c]
        IN  (builder.upgrade.some /\ H1Request(k, "upgrade")) =>
                /\ k.app_calls = 0 /\ k.expect_calls = 0
                /\ k.upgrade_calls = 1
                /\ k.upgrade_got =
                    [some |-> TRUE,
                     v |-> [by |-> builder.upgrade.v,
                            req |-> [id |-> k.nreq, kind |-> "upgrade",
                                     modified |-> FALSE, ext |-> k.ctx],
                            framed |-> [io |-> c, codec |-> "Codec"]]]
                /\ k.transport = "upgrade"
                /\ k.pc \in {"upgrade", "closed"}
                /\ k.responses = <<>>

\* C13 witness: the second request of a connection was an upgrade, taken over
\* by the upgrade handler of a service built by finish.
C13_Witness ==
    \E c \in Conns :
        /\ builder.upgrade.some /\ H1Request(conns[c], "upgrade")
        /\ service.proto = "http"
        /\ conns[c].pc = "closed"

\* C14: with a context factory registered, it is invoked exactly once for each
\* accepted connection, at accept and so before any request; its value, made
\* of that connection's transport, is the one every stage finds in the request
\* (expect handler, application handler, upgrade handler); two connections
\* never share a value; without a registered factory nothing is invoked.
C14_ContextOncePerConnection ==
    \A c \in Conns :
        LET k == conns[c]
        IN  /\ k.pc = "none" => k.ctx_calls = 0 /\ k.nreq = 0
            /\ \A d \in Conns \ {c} :
                    (k.ctx.some /\ conns[d].ctx.some) => k.ctx # conns[d].ctx
            /\ ~builder.on_connect.some => k.ctx_calls = 0
            /\ (builder.on_connect.some /\ k.pc # "none") =>
                /\ k.ctx_calls = 1
                /\ k.ctx = [some |-> TRUE,
                            v |-> [data |-> builder.on_connect.v.f, io |-> c]]
                /\ k.nreq > 0 => k.req.ext = k.ctx
                /\ k.expect_calls > 0 => k.expect_got.ext = k.ctx
                /\ k.app_calls > 0 => k.app_got.ext = k.ctx
                /\ k.upgrade_calls > 0 => k.upgrade_got.v.req.ext = k.ctx

\* C14 witness: two h2 connections, each with its own value, and the
\* application handler of one got that connection's value.
C14_Witness ==
    \E c \in Conns, d \in Conns :
        /\ c # d
        /\ builder.on_connect.some /\ service.proto = "h2"
        /\ conns[c].ctx_calls = 1 /\ conns[d].ctx_calls = 1
        /\ conns[c].app_calls = 1 /\ conns[c].app_got.ext.some
        /\ conns[c].app_got.ext.v.io = c

\* C15: the expect handler is invoked only for requests that signal the
\* expectation, and with that request; when it succeeds, the application
\* handler is invoked once, with the request the expect handler returned.
C15_ExpectGatesApplication ==
    \A c \in Conns :
        LET k == conns[c]
        IN  /\ k.expect_calls > 0 =>
                /\ k.expect_calls = 1
                /\ k.req.kind = "expect"
                /\ k.expect_got = k.req
            /\ (k.proto = "h1" /\ k.nreq > 0 /\ k.req.kind = "plain") =>
                k.expect_calls = 0 /\ k.app_calls = 1 /\ k.app_got = k.req
            /\ (H1Request(k, "expect") /\ builder.expect # [factory |-> "X1"]
                    /\ k.pc # "expect") =>
                /\ k.app_calls = 1
                /\ k.app_got = [k.req EXCEPT
                                    !.modified = (builder.expect = [factory |-> "X2"])]

\* C15 witness: the application handler got the request X2 had changed.
C15_Witness ==
    \E c \in Conns :
        /\ H1Request(conns[c], "expect") /\ builder.expect = [factory |-> "X2"]
        /\ service.proto = "http"
        /\ conns[c].pc = "app" /\ conns[c].app_got.modified

=============================================================================
